---- MODULE Spec2Model ----
(***************************************************************************)
(* Model of the scene-sequence orchestrator of gerador-desenhos-animados:  *)
(* the ImageGenerator component (src/components/ImageGenerator.tsx) and    *)
(* the Gemini service adapter (src/unnamed/part_000, imported as           *)
(* ../services/geminiService).                                             *)
(*                                                                         *)
(* Strings the code inspects character by character (references, prompt    *)
(* and narration text) are sequences of one-character strings.  Error      *)
(* messages are sequences of words, so that String.includes is a search    *)
(* for a contiguous run of words.  A nullable value is <<>> (null) or      *)
(* <<v>>.  A Record<string,string> is a function from names to texts.      *)
(* The aspectRatio, language and voiceType selections only parameterise    *)
(* the outgoing requests and are left out.                                 *)
(***************************************************************************)
EXTENDS Integers, Sequences, FiniteSets, TLC

\* ------------------------------------------------------------------------
\* Bounds of the model
\* ------------------------------------------------------------------------
\* highest verse number from which "next verse" is still requested
MaxVerse == 1
\* number of object URLs createObjectURL hands out
MaxUrls == 2
\* handler invocations that may be suspended at an await at the same time
MaxInFlight == 2
\* longest characterDescriptions array in a service payload
MaxChars == 1
\* handler invocations made directly, past the controls, in one behaviour
MaxCalls == 2
\* longest reference string given to the parser on its own, the long numbers apart
MaxRefLen == 5
\* longest decoded audio payload given to createWavBlob on its own
MaxPcmLen == 3

\* ------------------------------------------------------------------------
\* Values
\* ------------------------------------------------------------------------
None == <<>>

Some(v) == <<v>>

IsSome(o) == Len(o) = 1

Names == {"Adao"}

Descs == {"d1", "d2"}

Images == {"img1", "img2"}

\* what the user types as a reference: nothing, a blank, "G 1:1"
RefInputs == { <<>>, <<" ">>, <<"G", " ", "1", ":", "1">> }

\* what the user types as a prompt: nothing, a prompt of their own
PromptInputs == { <<>>, <<"h">> }

\* the scene prompts the model writes
ScenePrompts == { <<"s">> }

\* what the user types as narration text
NarrationInputs == { <<>>, <<"a">>, <<"b">> }

VerseTexts == { <<"a">> }

\* ------------------------------------------------------------------------
\* String primitives
\* ------------------------------------------------------------------------
DigitChars == <<"0", "1", "2", "3", "4", "5", "6", "7", "8", "9">>

IsDigit(c) == \E i \in 1..10 : DigitChars[i] = c

DigitVal(c) == (CHOOSE i \in 1..10 : DigitChars[i] = c) - 1

IsSpace(c) == c = " "

RECURSIVE TrimStart(_)
TrimStart(s) == IF s # <<>> /\ IsSpace(Head(s)) THEN TrimStart(Tail(s)) ELSE s

RECURSIVE TrimEnd(_)
TrimEnd(s) ==
    IF s # <<>> /\ IsSpace(s[Len(s)]) THEN TrimEnd(SubSeq(s, 1, Len(s) - 1)) ELSE s

\* a trim that removes nothing
Trim_Identity(s) == s

\* String.prototype.trim
Trim(s) == TrimEnd(TrimStart(s))

\* String.prototype.includes: needle occurs as a contiguous run of hay
Includes(hay, needle) ==
    \E i \in 1..(Len(hay) - Len(needle) + 1) :
        SubSeq(hay, i, i + Len(needle) - 1) = needle

\* A Number that holds a non-negative integer is modelled by the decimal
\* expansion of its value, a sequence of digits without leading zeros.  The
\* model covers the integers a double holds exactly that it needs: those of
\* at most 15 digits, and the powers of ten up to 10^22.
RECURSIVE StripZeros(_)
StripZeros(ds) == IF Len(ds) > 1 /\ Head(ds) = "0" THEN StripZeros(Tail(ds)) ELSE ds

IsPowerOfTen(d) == d[1] = "1" /\ \A i \in 2..Len(d) : d[i] = "0"

ExactNumber(d) == Len(d) <= 15 \/ (IsPowerOfTen(d) /\ Len(d) <= 23)

\* parseInt(ds, 10), of a run of digits
parseInt(ds) == StripZeros(ds)

\* the decimal digits of a small natural number
RECURSIVE Decimal(_)
Decimal(n) ==
    IF n < 10 THEN <<DigitChars[n + 1]>>
    ELSE Decimal(n \div 10) \o <<DigitChars[(n % 10) + 1]>>

\* Number::toString, as the template literal applies it: the decimal
\* expansion below 10^21, exponent notation from 10^21 on
NumToString(d) ==
    CASE Len(d) <= 21 -> d
      [] Len(d) > 21 /\ IsPowerOfTen(d) -> <<"1", "e", "+">> \o Decimal(Len(d) - 1)

RECURSIVE Increment(_)
Increment(d) ==
    IF d = <<>> THEN <<"1">>
    ELSE IF d[Len(d)] = "9" THEN Increment(SubSeq(d, 1, Len(d) - 1)) \o <<"0">>
    ELSE SubSeq(d, 1, Len(d) - 1) \o <<DigitChars[DigitVal(d[Len(d)]) + 2]>>

\* n + 1: exact below 2^53; a power of ten from 10^16 on absorbs the 1
PlusOne(d) == IF Len(d) >= 17 THEN d ELSE Increment(d)

AllDigits(s) == s # <<>> /\ \A i \in 1..Len(s) : IsDigit(s[i])

\* ------------------------------------------------------------------------
\* Bible reference parser / formatter
\* ------------------------------------------------------------------------
\* ref.trim().match(/^(.*\D)\s*(\d+):(\d+)$/): the verse is the digit run
\* after the last colon, the chapter the maximal digit run before it, and
\* the greedy first group everything up to the last non-digit before the
\* chapter.  None when there is no match.
parseBibleRef(ref) ==
    LET s == Trim(ref)
        colons == { k \in 1..Len(s) : s[k] = ":" }
    IN  IF colons = {} THEN None
        ELSE
          LET k == CHOOSE c \in colons : \A d \in colons : d <= c
              vs == SubSeq(s, k + 1, Len(s))
              nond == { j \in 1..(k - 1) : ~IsDigit(s[j]) }
          IN  IF ~AllDigits(vs) \/ nond = {} THEN None
              ELSE
                LET j == CHOOSE c \in nond : \A d \in nond : d <= c
                    cs == SubSeq(s, j + 1, k - 1)
                IN  IF cs = <<>> THEN None
                    ELSE Some([book |-> Trim(SubSeq(s, 1, j)),
                               chapter |-> parseInt(cs),
                               verse |-> parseInt(vs)])

formatBibleRef(parsed) ==
    parsed.book \o <<" ">> \o NumToString(parsed.chapter) \o <<":">>
        \o NumToString(parsed.verse)

\* a variant that moves to the first verse of the next chapter
getNextVerseRef_NextChapter(ref) ==
    LET parsed == parseBibleRef(ref)
    IN  IF IsSome(parsed)
        THEN formatBibleRef([parsed[1] EXCEPT !.chapter = PlusOne(@), !.verse = <<"1">>])
        ELSE <<>>

\* getNextVerseRef, of the reference given: '' when it does not parse
getNextVerseRef(ref) ==
    LET parsed == parseBibleRef(ref)
    IN  IF IsSome(parsed)
        THEN formatBibleRef([parsed[1] EXCEPT !.verse = PlusOne(@)])
        ELSE <<>>

\* ------------------------------------------------------------------------
\* Errors and the messages shown to the user
\* ------------------------------------------------------------------------
Err(name, message) == [name |-> name, message |-> message]

\* Error.prototype.toString: "name: message", or the name alone
ErrToString(err) ==
    IF err.message = <<>> THEN <<err.name>> ELSE <<err.name>> \o err.message

VERSE_NOT_FOUND == <<"VERSE_NOT_FOUND">>

MsgMalformed == <<"Falha ao processar a resposta da IA. O formato pode ser invalido.">>

MsgNoImage == <<"A imagem nao pode ser gerada.">>

MsgNoVerseText == <<"Nao foi possivel obter o texto do versiculo.">>

MsgNoAudio == <<"A API nao retornou nenhum audio.">>

MsgComm == <<"Ocorreu um erro de comunicacao com o servidor. Por favor, tente novamente em alguns instantes.">>

MsgCommAudio == <<"Ocorreu um erro de comunicacao com o servidor. Por favor, tente novamente.">>

MsgPromptFallback == <<"Ocorreu um erro ao gerar o prompt. Tente um versiculo diferente.">>

MsgImageFallback == <<"Ocorreu um erro ao gerar a imagem. Por favor, tente novamente.">>

MsgNextFallback == <<"Falha ao gerar o proximo versiculo.">>

MsgChapterEnd == <<"Fim do capitulo. Inicie uma nova cena.">>

MsgFetchFailed == <<"Ocorreu um erro ao buscar o texto. Verifique a referencia ou tente novamente.">>

MsgAudioFailed == <<"Ocorreu um erro ao gerar o audio. Por favor, tente novamente.">>

\* what the SDK client throws when a request fails: an HTTP 5xx, an RPC
\* transport failure, another API error
TransportErrors ==
    { Err("ApiError", <<"got", "status", "500">>),
      Err("Error", <<"Rpc", "failed", "due", "to", "xhr">>),
      Err("ApiError", <<"quota", "exceeded">>) }

\* err.toString().includes('500') || err.toString().includes('Rpc failed')
IsCommError(err) ==
    \/ Includes(ErrToString(err), <<"500">>)
    \/ Includes(ErrToString(err), <<"Rpc", "failed">>)

\* err.message || fallback
MessageOr(err, fallback) == IF err.message # <<>> THEN err.message ELSE fallback

\* ------------------------------------------------------------------------
\* Service adapter (geminiService)
\* ------------------------------------------------------------------------
Throws(err) == [ok |-> FALSE, err |-> err]

CharEntries == [name : Names, description : Descs]

CharLists == UNION { [1..n -> CharEntries] : n \in 0..MaxChars }

\* what ai.models.generateContent does for a scene request: it throws, or
\* answers text that is not JSON, or answers a JSON object in which each of
\* error, scenePrompt and characterDescriptions may be missing
SceneResponses ==
    { [tag |-> "throw", err |-> e] : e \in TransportErrors }
    \cup { [tag |-> "notjson"] }
    \cup [tag : {"json"},
          error : {None, Some("VERSE_NOT_FOUND"), Some("OTHER")},
          scenePrompt : {None, Some(<<>>)} \cup { Some(p) : p \in ScenePrompts },
          characterDescriptions : {None} \cup { Some(l) : l \in CharLists }]

\* existingCharacters && Object.keys(existingCharacters).length > 0
isContinuation(existingCharacters) ==
    IsSome(existingCharacters) /\ DOMAIN existingCharacters[1] # {}

\* parsedJson.characterDescriptions.reduce(...): a later entry of the same
\* name overwrites an earlier one
characterDescriptionsMap(list) ==
    LET present == { list[i].name : i \in 1..Len(list) }
        lastOf(nm) == CHOOSE i \in 1..Len(list) :
                          /\ list[i].name = nm
                          /\ \A j \in 1..Len(list) : list[j].name = nm => j <= i
    IN  [nm \in present |-> list[lastOf(nm)].description]

\* an adapter that looks for the missing fields before the error field
generateImagePrompt_FieldsFirst(resp) ==
    IF resp.tag = "throw" THEN Throws(resp.err)
    ELSE IF resp.tag \in {"notjson", "null"} THEN Throws(Err("Error", MsgMalformed))
    ELSE IF resp.scenePrompt \in {None, Some(<<>>)}
            \/ (resp.tag = "json" /\ resp.characterDescriptions = None)
         THEN Throws(Err("Error", MsgMalformed))
    ELSE IF resp.error = Some("VERSE_NOT_FOUND") THEN Throws(Err("Error", VERSE_NOT_FOUND))
    ELSE IF resp.tag = "badlist" THEN Throws(Err("Error", MsgMalformed))
    ELSE [ok |-> TRUE,
          scenePrompt |-> resp.scenePrompt[1],
          characterDescriptions |-> characterDescriptionsMap(resp.characterDescriptions[1])]

\* generateImagePrompt, from the response of the model onwards.  JSON.parse
\* throws on text that is not JSON; reading a field of the payload null
\* throws a TypeError, and so does reduce on a characterDescriptions that is
\* not an array or that has a null entry ("badlist"); the inner catch turns
\* each of them, and the error of the missing fields, into the malformed-
\* response error, and rethrows VERSE_NOT_FOUND alone.
generateImagePrompt(resp) ==
    IF resp.tag = "throw" THEN Throws(resp.err)
    ELSE IF resp.tag \in {"notjson", "null"} THEN Throws(Err("Error", MsgMalformed))
    ELSE IF resp.error = Some("VERSE_NOT_FOUND") THEN Throws(Err("Error", VERSE_NOT_FOUND))
    ELSE IF resp.scenePrompt \in {None, Some(<<>>)}
            \/ (resp.tag = "json" /\ resp.characterDescriptions = None)
         THEN Throws(Err("Error", MsgMalformed))
    ELSE IF resp.tag = "badlist" THEN Throws(Err("Error", MsgMalformed))
    ELSE [ok |-> TRUE,
          scenePrompt |-> resp.scenePrompt[1],
          characterDescriptions |-> characterDescriptionsMap(resp.characterDescriptions[1])]

ImageResponses ==
    { [tag |-> "throw", err |-> e] : e \in TransportErrors }
    \cup { [tag |-> "images", generatedImages |-> l] : l \in {<<>>} \cup { <<i>> : i \in Images } }

generateImage(resp) ==
    IF resp.tag = "throw" THEN Throws(resp.err)
    ELSE IF Len(resp.generatedImages) > 0
         THEN [ok |-> TRUE, imageBytes |-> resp.generatedImages[1]]
    ELSE Throws(Err("Error", MsgNoImage))

TextResponses ==
    { [tag |-> "throw", err |-> e] : e \in TransportErrors }
    \cup { [tag |-> "text", text |-> t] : t \in {<<>>, <<" ">>} \cup VerseTexts }

getVerseText(resp) ==
    IF resp.tag = "throw" THEN Throws(resp.err)
    ELSE IF Trim(resp.text) = <<>> THEN Throws(Err("Error", MsgNoVerseText))
    ELSE [ok |-> TRUE, bibleText |-> Trim(resp.text)]

\* the speech response: it throws, carries no inline data, carries base64
\* data, or carries data that atob rejects
SpeechResponses ==
    { [tag |-> "throw", err |-> e] : e \in TransportErrors }
    \cup { [tag |-> "audio", data |-> d] : d \in {None, Some("base64"), Some("notbase64")} }

generateSpeech(resp) ==
    IF resp.tag = "throw" THEN Throws(resp.err)
    ELSE IF IsSome(resp.data) THEN [ok |-> TRUE, base64Audio |-> resp.data[1]]
    ELSE Throws(Err("Error", MsgNoAudio))

\* ------------------------------------------------------------------------
\* State of the ImageGenerator component
\* ------------------------------------------------------------------------
VARIABLES
    bibleReference,         \* text of the reference input
    promptText,             \* text of the prompt textarea
    characterDescriptions,  \* null or the Record<string,string> of the cast
    isSequenceActive,
    isPromptLoading,
    promptError,
    isImageLoading,
    generatedImage,
    imageError,
    isAudioLoading,
    audioError,
    generatedAudioUrl,      \* null or the object URL held
    narratedText,
    textForNarration,
    isFetchingVerse,
    mounted,                \* the component has not been unmounted
    inflight,               \* the handler invocations suspended at an await
    nextUrl,                \* the next object URL createObjectURL returns
    revoked,                \* per object URL created, the revokeObjectURL calls
    calls,                  \* the handler invocations made past the controls
    eval,                   \* a pure function evaluated on its own: argument and value
    ev                      \* the step just taken (history)

seqVars == <<bibleReference, promptText, characterDescriptions, isSequenceActive,
             generatedImage>>

flagVars == <<isPromptLoading, isImageLoading, isAudioLoading, isFetchingVerse>>

errVars == <<promptError, imageError, audioError>>

audioVars == <<generatedAudioUrl, narratedText, textForNarration>>

urlVars == <<nextUrl, revoked>>

vars == <<seqVars, flagVars, errVars, audioVars, urlVars, mounted, inflight, calls, eval, ev>>

isAnyLoading == isPromptLoading \/ isImageLoading \/ isAudioLoading \/ isFetchingVerse

\* the sequence state as an operation finds it
Snapshot ==
    [active |-> isSequenceActive, ref |-> bibleReference,
     chars |-> characterDescriptions, prompt |-> promptText,
     image |-> generatedImage]

NoCall == [svc |-> "none", mode |-> "none"]

\* the snapshot field of the steps that are not the return of a handler
NoSnapshot ==
    [active |-> FALSE, ref |-> <<>>, chars |-> None, prompt |-> <<>>, image |-> None]

\* the record of a step: which handler, what became of it, the service call
\* it issued, the state and the busy flag the handler was invoked in, and
\* the service call it resumed from with the outcome of that call
Event(kind, op, outcome, call, pre, busy, stage, res) ==
    [kind |-> kind, op |-> op, outcome |-> outcome, call |-> call,
     pre |-> pre, busy |-> busy, stage |-> stage, res |-> res]

\* a suspended invocation: the values its closure captured
Cont(op, stage, ref, lastValidRef, text) ==
    [op |-> op, stage |-> stage, ref |-> ref, lastValidRef |-> lastValidRef,
     text |-> text, pre |-> Snapshot, busy |-> isAnyLoading]

RemoveAt(q, i) == SubSeq(q, 1, i - 1) \o SubSeq(q, i + 1, Len(q))

\* URL.revokeObjectURL(u)
Revoke(rv, u) == [rv EXCEPT ![u] = @ + 1]

\* the cleanup of the effect keyed on generatedAudioUrl: it runs when the
\* committed value changes and revokes the value it closed over
EffectCleanup(rv, old, new) ==
    IF old # new /\ IsSome(old) THEN Revoke(rv, old[1]) ELSE rv

\* no pure function is being evaluated on its own
NoEval == [fn |-> "none", arg |-> None, out |-> None]

\* the component after its first render
InitComponent ==
    /\ bibleReference = <<>>
    /\ promptText = <<>>
    /\ characterDescriptions = None
    /\ isSequenceActive = FALSE
    /\ isPromptLoading = FALSE
    /\ promptError = None
    /\ isImageLoading = FALSE
    /\ generatedImage = None
    /\ imageError = None
    /\ isAudioLoading = FALSE
    /\ audioError = None
    /\ generatedAudioUrl = None
    /\ narratedText = None
    /\ textForNarration = <<>>
    /\ isFetchingVerse = FALSE
    /\ mounted = TRUE
    /\ inflight = <<>>
    /\ nextUrl = 1
    /\ revoked = <<>>
    /\ calls = 0
    /\ ev = Event("init", "none", "none", NoCall, NoSnapshot, FALSE, "none", None)

Init == InitComponent /\ eval = NoEval

\* an early return: nothing is set and nothing is called
Rejected(op) ==
    /\ ev' = Event("invoke", op, "rejected", NoCall, Snapshot, isAnyLoading, "none", None)
    /\ UNCHANGED <<seqVars, flagVars, errVars, audioVars, urlVars, mounted, inflight>>

\* ------------------------------------------------------------------------
\* Edits of the three text inputs
\* ------------------------------------------------------------------------
SetBibleReference(r) ==
    /\ mounted /\ ~(isAnyLoading \/ isSequenceActive)
    /\ bibleReference' = r
    /\ ev' = Event("edit", "none", "none", NoCall, NoSnapshot, isAnyLoading, "none", None)
    /\ UNCHANGED <<promptText, characterDescriptions, isSequenceActive, generatedImage,
                   flagVars, errVars, audioVars, urlVars, mounted, inflight>>

SetPromptText(t) ==
    /\ mounted /\ ~isAnyLoading
    /\ promptText' = t
    /\ ev' = Event("edit", "none", "none", NoCall, NoSnapshot, isAnyLoading, "none", None)
    /\ UNCHANGED <<bibleReference, characterDescriptions, isSequenceActive, generatedImage,
                   flagVars, errVars, audioVars, urlVars, mounted, inflight>>

SetTextForNarration(t) ==
    /\ mounted /\ ~isAnyLoading
    /\ textForNarration' = t
    /\ ev' = Event("edit", "none", "none", NoCall, NoSnapshot, isAnyLoading, "none", None)
    /\ UNCHANGED <<seqVars, flagVars, errVars, generatedAudioUrl, narratedText,
                   urlVars, mounted, inflight>>

\* ------------------------------------------------------------------------
\* handleStartNew
\* ------------------------------------------------------------------------
handleStartNew ==
    /\ mounted
    /\ isSequenceActive' = FALSE
    /\ characterDescriptions' = None
    /\ generatedImage' = None
    /\ imageError' = None
    /\ promptError' = None
    /\ promptText' = <<>>
    /\ bibleReference' = <<>>
    /\ generatedAudioUrl' = None
    /\ textForNarration' = <<>>
    /\ narratedText' = None
    /\ revoked' = EffectCleanup(revoked, generatedAudioUrl, None)
    /\ ev' = Event("reset", "startNew", "ok", NoCall, NoSnapshot, isAnyLoading, "none", None)
    /\ UNCHANGED <<flagVars, audioError, nextUrl, mounted, inflight>>

\* ------------------------------------------------------------------------
\* handleGeneratePrompt
\* ------------------------------------------------------------------------
\* the catch block of handleGeneratePrompt: the message it shows
PromptErrorMessage(err) ==
    IF IsCommError(err) THEN MsgComm ELSE MessageOr(err, MsgPromptFallback)

\* a merge that keeps the entries of the previous cast
StoreCharacters_Union(previous, newChars) ==
    IF IsSome(previous)
    THEN Some([nm \in DOMAIN previous[1] \cup DOMAIN newChars |->
                  IF nm \in DOMAIN newChars THEN newChars[nm] ELSE previous[1][nm]])
    ELSE Some(newChars)

\* setCharacterDescriptions(newChars): the state after the set, given the
\* state before it
StoreCharacters(previous, newChars) == Some(newChars)

\* a handler whose reset forgets setCharacterDescriptions(null)
handleGeneratePrompt_KeepsCast ==
    /\ mounted
    /\ IF Trim(bibleReference) = <<>> THEN Rejected("prompt")
       ELSE
         /\ isSequenceActive' = FALSE
         /\ generatedImage' = None
         /\ imageError' = None
         /\ promptError' = None
         /\ promptText' = <<>>
         /\ generatedAudioUrl' = None
         /\ textForNarration' = <<>>
         /\ narratedText' = None
         /\ revoked' = EffectCleanup(revoked, generatedAudioUrl, None)
         /\ isPromptLoading' = TRUE
         /\ inflight' = Append(inflight, Cont("prompt", "scene", bibleReference, bibleReference, <<>>))
         /\ ev' = Event("invoke", "prompt", "started",
                        [svc |-> "scene", mode |-> IF isContinuation(None) THEN "continuation" ELSE "fresh"],
                        Snapshot, isAnyLoading, "none", None)
         /\ UNCHANGED <<bibleReference, characterDescriptions, isImageLoading, isAudioLoading, isFetchingVerse,
                        audioError, nextUrl, mounted>>

\* a handler whose reset also clears the reference, as handleStartNew does
handleGeneratePrompt_ClearsReference ==
    /\ mounted
    /\ IF Trim(bibleReference) = <<>> THEN Rejected("prompt")
       ELSE
         /\ isSequenceActive' = FALSE
         /\ characterDescriptions' = None
         /\ generatedImage' = None
         /\ imageError' = None
         /\ promptError' = None
         /\ promptText' = <<>>
         /\ bibleReference' = <<>>
         /\ generatedAudioUrl' = None
         /\ textForNarration' = <<>>
         /\ narratedText' = None
         /\ revoked' = EffectCleanup(revoked, generatedAudioUrl, None)
         /\ isPromptLoading' = TRUE
         /\ inflight' = Append(inflight, Cont("prompt", "scene", bibleReference, bibleReference, <<>>))
         /\ ev' = Event("invoke", "prompt", "started",
                        [svc |-> "scene", mode |-> IF isContinuation(None) THEN "continuation" ELSE "fresh"],
                        Snapshot, isAnyLoading, "none", None)
         /\ UNCHANGED <<isImageLoading, isAudioLoading, isFetchingVerse,
                        audioError, nextUrl, mounted>>

\* the handler up to its await: the reset, the loading flag, the request
handleGeneratePrompt ==
    /\ mounted
    /\ IF Trim(bibleReference) = <<>> THEN Rejected("prompt")
       ELSE
         /\ isSequenceActive' = FALSE
         /\ characterDescriptions' = None
         /\ generatedImage' = None
         /\ imageError' = None
         /\ promptError' = None
         /\ promptText' = <<>>
         /\ generatedAudioUrl' = None
         /\ textForNarration' = <<>>
         /\ narratedText' = None
         /\ revoked' = EffectCleanup(revoked, generatedAudioUrl, None)
         /\ isPromptLoading' = TRUE
         /\ inflight' = Append(inflight, Cont("prompt", "scene", bibleReference, bibleReference, <<>>))
         /\ ev' = Event("invoke", "prompt", "started",
                        [svc |-> "scene", mode |-> IF isContinuation(None) THEN "continuation" ELSE "fresh"],
                        Snapshot, isAnyLoading, "none", None)
         /\ UNCHANGED <<bibleReference, isImageLoading, isAudioLoading, isFetchingVerse,
                        audioError, nextUrl, mounted>>

ResolvePrompt(i, resp) ==
    LET c == inflight[i]
        r == generateImagePrompt(resp)
    IN  /\ c.op = "prompt"
        /\ inflight' = RemoveAt(inflight, i)
        /\ ev' = Event("resolve", "prompt", IF r.ok THEN "ok" ELSE "error", NoCall,
                       c.pre, c.busy, c.stage, Some(r))
        /\ IF ~mounted
           THEN UNCHANGED <<seqVars, flagVars, errVars>>
           ELSE /\ isPromptLoading' = FALSE
                /\ IF r.ok
                   THEN /\ promptText' = r.scenePrompt
                        /\ characterDescriptions' =
                               StoreCharacters(characterDescriptions, r.characterDescriptions)
                        /\ UNCHANGED promptError
                   ELSE /\ promptError' = Some(PromptErrorMessage(r.err))
                        /\ UNCHANGED <<promptText, characterDescriptions>>
                /\ UNCHANGED <<bibleReference, isSequenceActive, generatedImage,
                               isImageLoading, isAudioLoading, isFetchingVerse,
                               imageError, audioError>>
        /\ UNCHANGED <<audioVars, urlVars, mounted>>

\* ------------------------------------------------------------------------
\* handleGenerateImage
\* ------------------------------------------------------------------------
\* the catch block of handleGenerateImage: the message it shows
ImageErrorMessage(err) ==
    IF IsCommError(err) THEN MsgComm ELSE MessageOr(err, MsgImageFallback)

handleGenerateImage ==
    /\ mounted
    /\ IF Trim(promptText) = <<>> \/ isImageLoading THEN Rejected("image")
       ELSE
         /\ isImageLoading' = TRUE
         /\ imageError' = None
         /\ generatedImage' = None
         /\ inflight' = Append(inflight, Cont("image", "image", bibleReference, bibleReference, promptText))
         /\ ev' = Event("invoke", "image", "started", [svc |-> "image", mode |-> "none"],
                        Snapshot, isAnyLoading, "none", None)
         /\ UNCHANGED <<bibleReference, promptText, characterDescriptions, isSequenceActive,
                        isPromptLoading, isAudioLoading, isFetchingVerse,
                        promptError, audioError, audioVars, urlVars, mounted>>

ResolveImage(i, resp) ==
    LET c == inflight[i]
        r == generateImage(resp)
    IN  /\ c.op = "image"
        /\ inflight' = RemoveAt(inflight, i)
        /\ ev' = Event("resolve", "image", IF r.ok THEN "ok" ELSE "error", NoCall,
                       c.pre, c.busy, c.stage, Some(r))
        /\ IF ~mounted
           THEN UNCHANGED <<seqVars, flagVars, errVars>>
           ELSE /\ isImageLoading' = FALSE
                /\ IF r.ok
                   THEN /\ generatedImage' = Some(r.imageBytes)
                        /\ isSequenceActive' = TRUE
                        /\ UNCHANGED imageError
                   ELSE /\ imageError' = Some(ImageErrorMessage(r.err))
                        /\ UNCHANGED <<generatedImage, isSequenceActive>>
                /\ UNCHANGED <<bibleReference, promptText, characterDescriptions,
                               isPromptLoading, isAudioLoading, isFetchingVerse,
                               promptError, audioError>>
        /\ UNCHANGED <<audioVars, urlVars, mounted>>

\* ------------------------------------------------------------------------
\* handleGenerateNextVerse
\* ------------------------------------------------------------------------
\* a catch block whose last branch forgets setBibleReference(lastValidRef)
NextVerseCatch_NoRestore(err, lastValidRef, active) ==
    IF Includes(err.message, VERSE_NOT_FOUND)
    THEN [imageError |-> MsgChapterEnd, isSequenceActive |-> FALSE,
          bibleReference |-> lastValidRef]
    ELSE IF IsCommError(err)
    THEN [imageError |-> MsgComm, isSequenceActive |-> active,
          bibleReference |-> lastValidRef]
    ELSE [imageError |-> MessageOr(err, MsgNextFallback), isSequenceActive |-> active,
          bibleReference |-> bibleReference]

\* a catch block whose boundary branch forgets setIsSequenceActive(false)
NextVerseCatch_StaysActive(err, lastValidRef, active) ==
    IF Includes(err.message, VERSE_NOT_FOUND)
    THEN [imageError |-> MsgChapterEnd, isSequenceActive |-> active,
          bibleReference |-> lastValidRef]
    ELSE IF IsCommError(err)
    THEN [imageError |-> MsgComm, isSequenceActive |-> active,
          bibleReference |-> lastValidRef]
    ELSE [imageError |-> MessageOr(err, MsgNextFallback), isSequenceActive |-> active,
          bibleReference |-> lastValidRef]

\* a catch block that ends the sequence on every error
NextVerseCatch_EndsOnAnyError(err, lastValidRef, active) ==
    IF Includes(err.message, VERSE_NOT_FOUND)
    THEN [imageError |-> MsgChapterEnd, isSequenceActive |-> FALSE,
          bibleReference |-> lastValidRef]
    ELSE IF IsCommError(err)
    THEN [imageError |-> MsgComm, isSequenceActive |-> FALSE,
          bibleReference |-> lastValidRef]
    ELSE [imageError |-> MessageOr(err, MsgNextFallback), isSequenceActive |-> FALSE,
          bibleReference |-> lastValidRef]

\* the catch block of handleGenerateNextVerse: what it sets, given the
\* error caught, the reference saved before the call and the active flag
NextVerseCatch(err, lastValidRef, active) ==
    IF Includes(err.message, VERSE_NOT_FOUND)
    THEN [imageError |-> MsgChapterEnd, isSequenceActive |-> FALSE,
          bibleReference |-> lastValidRef]
    ELSE IF IsCommError(err)
    THEN [imageError |-> MsgComm, isSequenceActive |-> active,
          bibleReference |-> lastValidRef]
    ELSE [imageError |-> MessageOr(err, MsgNextFallback), isSequenceActive |-> active,
          bibleReference |-> lastValidRef]

\* an early return that tests the next reference only
NextVerseGuard_RefOnly(nextVerseRef, chars) == nextVerseRef # <<>>

\* the early return of handleGenerateNextVerse
NextVerseGuard(nextVerseRef, chars) == nextVerseRef # <<>> /\ IsSome(chars)

handleGenerateNextVerse ==
    LET nextVerseRef == getNextVerseRef(bibleReference)
    IN  /\ mounted
        /\ IF ~NextVerseGuard(nextVerseRef, characterDescriptions) THEN Rejected("next")
           ELSE
             /\ isImageLoading' = TRUE
             /\ imageError' = None
             /\ promptError' = None
             /\ bibleReference' = nextVerseRef
             /\ inflight' = Append(inflight,
                                   Cont("next", "scene", nextVerseRef, bibleReference, <<>>))
             /\ ev' = Event("invoke", "next", "started",
                            [svc |-> "scene",
                             mode |-> IF isContinuation(characterDescriptions)
                                      THEN "continuation" ELSE "fresh"],
                            Snapshot, isAnyLoading, "none", None)
             /\ UNCHANGED <<promptText, characterDescriptions, isSequenceActive, generatedImage,
                            isPromptLoading, isAudioLoading, isFetchingVerse,
                            audioError, audioVars, urlVars, mounted>>

\* a catch block with no finally: the loading flag is left set
NextVerseFail_NoFinally(c, err) ==
    LET upd == NextVerseCatch(err, c.lastValidRef, isSequenceActive)
    IN  /\ imageError' = Some(upd.imageError)
        /\ isSequenceActive' = upd.isSequenceActive
        /\ bibleReference' = upd.bibleReference
        /\ UNCHANGED isImageLoading

\* the catch and finally blocks, run for the error of either call
NextVerseFail(c, err) ==
    LET upd == NextVerseCatch(err, c.lastValidRef, isSequenceActive)
    IN  /\ imageError' = Some(upd.imageError)
        /\ isSequenceActive' = upd.isSequenceActive
        /\ bibleReference' = upd.bibleReference
        /\ isImageLoading' = FALSE

\* a handler that sends the prompt it closed over when it was invoked
NextImagePrompt_Stale(scenePrompt, closedPrompt) == closedPrompt

\* the prompt handed to generateImage: the scenePrompt destructured from the
\* scene call's result, not the promptText state of the closure
NextImagePrompt(scenePrompt, closedPrompt) == scenePrompt

\* the scene description of the next verse has arrived
ResolveNextScene(i, resp) ==
    LET c == inflight[i]
        r == generateImagePrompt(resp)
    IN  /\ c.op = "next" /\ c.stage = "scene"
        /\ IF r.ok
           THEN /\ inflight' = [inflight EXCEPT ![i].stage = "image",
                                              ![i].text = NextImagePrompt(r.scenePrompt,
                                                                          c.pre.prompt)]
                /\ ev' = Event("resolve", "next", "continue", [svc |-> "image", mode |-> "none"],
                               c.pre, c.busy, c.stage, Some(r))
                /\ IF ~mounted
                   THEN UNCHANGED <<promptText, characterDescriptions>>
                   ELSE /\ promptText' = r.scenePrompt
                        /\ characterDescriptions' =
                               StoreCharacters(characterDescriptions, r.characterDescriptions)
                /\ UNCHANGED <<bibleReference, isSequenceActive, generatedImage, flagVars,
                               errVars>>
           ELSE /\ inflight' = RemoveAt(inflight, i)
                /\ ev' = Event("resolve", "next", "error", NoCall, c.pre, c.busy, c.stage, Some(r))
                /\ IF ~mounted
                   THEN UNCHANGED <<bibleReference, isSequenceActive, isImageLoading, imageError>>
                   ELSE NextVerseFail(c, r.err)
                /\ UNCHANGED <<promptText, characterDescriptions, generatedImage,
                               isPromptLoading, isAudioLoading, isFetchingVerse,
                               promptError, audioError>>
        /\ UNCHANGED <<audioVars, urlVars, mounted>>

\* the image of the next verse has arrived
ResolveNextImage(i, resp) ==
    LET c == inflight[i]
        r == generateImage(resp)
    IN  /\ c.op = "next" /\ c.stage = "image"
        /\ inflight' = RemoveAt(inflight, i)
        /\ ev' = Event("resolve", "next", IF r.ok THEN "ok" ELSE "error", NoCall,
                       c.pre, c.busy, c.stage, Some(r))
        /\ IF ~mounted
           THEN UNCHANGED <<bibleReference, isSequenceActive, isImageLoading, imageError,
                            generatedImage>>
           ELSE IF r.ok
           THEN /\ generatedImage' = Some(r.imageBytes)
                /\ isSequenceActive' = TRUE
                /\ isImageLoading' = FALSE
                /\ UNCHANGED <<bibleReference, imageError>>
           ELSE /\ NextVerseFail(c, r.err)
                /\ UNCHANGED generatedImage
        /\ UNCHANGED <<promptText, characterDescriptions, isPromptLoading, isAudioLoading,
                       isFetchingVerse, promptError, audioError, audioVars, urlVars, mounted>>

\* ------------------------------------------------------------------------
\* handleFetchVerseText
\* ------------------------------------------------------------------------
FetchErrorMessage(err) == IF IsCommError(err) THEN MsgCommAudio ELSE MsgFetchFailed

\* a handler that empties the prompt box along with the narration box
handleFetchVerseText_ClearsPrompt ==
    /\ mounted
    /\ IF Trim(bibleReference) = <<>> \/ isFetchingVerse THEN Rejected("fetch")
       ELSE
         /\ isFetchingVerse' = TRUE
         /\ audioError' = None
         /\ textForNarration' = <<>>
         /\ promptText' = <<>>
         /\ inflight' = Append(inflight, Cont("fetch", "text", bibleReference, bibleReference, <<>>))
         /\ ev' = Event("invoke", "fetch", "started", [svc |-> "text", mode |-> "none"],
                        Snapshot, isAnyLoading, "none", None)
         /\ UNCHANGED <<bibleReference, characterDescriptions, isSequenceActive,
                        generatedImage, isPromptLoading, isImageLoading, isAudioLoading,
                        promptError, imageError, generatedAudioUrl, narratedText,
                        urlVars, mounted>>

\* the handler up to its await
handleFetchVerseText ==
    /\ mounted
    /\ IF Trim(bibleReference) = <<>> \/ isFetchingVerse THEN Rejected("fetch")
       ELSE
         /\ isFetchingVerse' = TRUE
         /\ audioError' = None
         /\ textForNarration' = <<>>
         /\ inflight' = Append(inflight, Cont("fetch", "text", bibleReference, bibleReference, <<>>))
         /\ ev' = Event("invoke", "fetch", "started", [svc |-> "text", mode |-> "none"],
                        Snapshot, isAnyLoading, "none", None)
         /\ UNCHANGED <<seqVars, isPromptLoading, isImageLoading, isAudioLoading,
                        promptError, imageError, generatedAudioUrl, narratedText,
                        urlVars, mounted>>

ResolveFetch(i, resp) ==
    LET c == inflight[i]
        r == getVerseText(resp)
    IN  /\ c.op = "fetch"
        /\ inflight' = RemoveAt(inflight, i)
        /\ ev' = Event("resolve", "fetch", IF r.ok THEN "ok" ELSE "error", NoCall,
                       c.pre, c.busy, c.stage, Some(r))
        /\ IF ~mounted
           THEN UNCHANGED <<isFetchingVerse, audioError, textForNarration>>
           ELSE /\ isFetchingVerse' = FALSE
                /\ IF r.ok
                   THEN textForNarration' = r.bibleText /\ UNCHANGED audioError
                   ELSE audioError' = Some(FetchErrorMessage(r.err)) /\ UNCHANGED textForNarration
        /\ UNCHANGED <<seqVars, isPromptLoading, isImageLoading, isAudioLoading,
                       promptError, imageError, generatedAudioUrl, narratedText,
                       urlVars, mounted>>

\* ------------------------------------------------------------------------
\* handleGenerateAudioClick
\* ------------------------------------------------------------------------
AudioErrorMessage(err) == IF IsCommError(err) THEN MsgCommAudio ELSE MsgAudioFailed

\* the revokeObjectURL calls of one handleGenerateAudioClick invocation:
\* the handler revokes the URL held, then sets the state to null, and the
\* effect cleanup of the URL that was held runs on that change
AudioClickRevokes(rv, held) ==
    EffectCleanup(IF IsSome(held) THEN Revoke(rv, held[1]) ELSE rv, held, None)

handleGenerateAudioClick ==
    /\ mounted
    /\ IF Trim(textForNarration) = <<>> \/ isAudioLoading THEN Rejected("audio")
       ELSE
         /\ isAudioLoading' = TRUE
         /\ audioError' = None
         /\ revoked' = AudioClickRevokes(revoked, generatedAudioUrl)
         /\ generatedAudioUrl' = None
         /\ narratedText' = None
         /\ inflight' = Append(inflight, Cont("audio", "speech", bibleReference, bibleReference,
                                              textForNarration))
         /\ ev' = Event("invoke", "audio", "started", [svc |-> "speech", mode |-> "none"],
                        Snapshot, isAnyLoading, "none", None)
         /\ UNCHANGED <<seqVars, isPromptLoading, isImageLoading, isFetchingVerse,
                        promptError, imageError, textForNarration, nextUrl, mounted>>

\* atob accepts the payload, so that createWavBlob returns a blob
ValidBase64(b) == b = "base64"

\* a handler that reads the text box when the speech call returns
NarratedText_Current(submitted, current) == current

\* setNarratedText(textForNarration): the textForNarration of the closure,
\* which is the text that was passed to generateSpeech
NarratedText(submitted, current) == submitted

\* the speech call has returned
ResolveAudio(i, resp) ==
    LET c == inflight[i]
        r == generateSpeech(resp)
        made == r.ok /\ ValidBase64(r.base64Audio)
        url == nextUrl
    IN  /\ c.op = "audio"
        /\ inflight' = RemoveAt(inflight, i)
        /\ ev' = Event("resolve", "audio", IF made THEN "ok" ELSE "error", NoCall,
                       c.pre, c.busy, c.stage, Some(r))
        /\ IF made
           THEN /\ nextUrl' = nextUrl + 1
                /\ IF mounted
                   THEN /\ generatedAudioUrl' = Some(url)
                        /\ narratedText' = Some(NarratedText(c.text, textForNarration))
                        /\ revoked' = EffectCleanup(revoked @@ (url :> 0),
                                                    generatedAudioUrl, Some(url))
                        /\ isAudioLoading' = FALSE
                   ELSE /\ revoked' = revoked @@ (url :> 0)
                        /\ UNCHANGED <<generatedAudioUrl, narratedText, isAudioLoading>>
                /\ UNCHANGED audioError
           ELSE /\ IF mounted
                   THEN /\ audioError' = Some(IF r.ok THEN MsgAudioFailed
                                              ELSE AudioErrorMessage(r.err))
                        /\ isAudioLoading' = FALSE
                   ELSE UNCHANGED <<audioError, isAudioLoading>>
                /\ UNCHANGED <<generatedAudioUrl, narratedText, urlVars>>
        /\ UNCHANGED <<seqVars, isPromptLoading, isImageLoading, isFetchingVerse,
                       promptError, imageError, textForNarration, mounted>>

\* ------------------------------------------------------------------------
\* Unmount of the component: the effect cleanup runs a last time and the
\* state of the component is discarded with it; a handler that resumes
\* afterwards sets nothing
\* ------------------------------------------------------------------------
Unmount ==
    /\ mounted
    /\ mounted' = FALSE
    /\ revoked' = EffectCleanup(revoked, generatedAudioUrl, None)
    /\ bibleReference' = <<>>
    /\ promptText' = <<>>
    /\ characterDescriptions' = None
    /\ isSequenceActive' = FALSE
    /\ generatedImage' = None
    /\ isPromptLoading' = FALSE
    /\ isImageLoading' = FALSE
    /\ isAudioLoading' = FALSE
    /\ isFetchingVerse' = FALSE
    /\ promptError' = None
    /\ imageError' = None
    /\ audioError' = None
    /\ generatedAudioUrl' = None
    /\ narratedText' = None
    /\ textForNarration' = <<>>
    /\ ev' = Event("unmount", "none", "none", NoCall, NoSnapshot, FALSE, "none", None)
    /\ UNCHANGED <<nextUrl, inflight, calls, eval>>

\* ------------------------------------------------------------------------
\* The component driven through its controls
\* ------------------------------------------------------------------------
\* guards that keep the model finite
InFlightRoom == Len(inflight) < MaxInFlight

VerseRoom ==
    LET parsed == parseBibleRef(bibleReference)
    IN  IsSome(parsed) => parsed[1].verse \in {Decimal(n) : n \in 0..MaxVerse}

UrlRoom ==
    nextUrl + Cardinality({ i \in 1..Len(inflight) : inflight[i].op = "audio" }) <= MaxUrls

\* the "Nova Cena" button: rendered in an active sequence
ClickStartNew ==
    /\ isSequenceActive /\ ~isAnyLoading
    /\ handleStartNew
    /\ UNCHANGED <<calls, eval>>

\* the "Gerar Prompt Automaticamente" button
ClickGeneratePrompt ==
    /\ ~(Trim(bibleReference) = <<>> \/ isAnyLoading \/ isSequenceActive)
    /\ InFlightRoom
    /\ handleGeneratePrompt
    /\ UNCHANGED <<calls, eval>>

\* a "Gerar Imagem" button that stays enabled in an active sequence
ClickGenerateImage_EnabledInSequence ==
    /\ ~(Trim(promptText) = <<>> \/ isAnyLoading)
    /\ InFlightRoom
    /\ handleGenerateImage
    /\ UNCHANGED <<calls, eval>>

\* the "Gerar Imagem" button
ClickGenerateImage ==
    /\ ~(Trim(promptText) = <<>> \/ isAnyLoading \/ isSequenceActive)
    /\ InFlightRoom
    /\ handleGenerateImage
    /\ UNCHANGED <<calls, eval>>

\* the "Gerar Proximo Versiculo" button: rendered under the image of an
\* active sequence
ClickGenerateNextVerse ==
    /\ IsSome(generatedImage) /\ isSequenceActive /\ ~isAnyLoading
    /\ InFlightRoom /\ VerseRoom
    /\ handleGenerateNextVerse
    /\ UNCHANGED <<calls, eval>>

\* a "Buscar Texto" button that stays enabled while something is loading
ClickFetchVerseText_IgnoresLoading ==
    /\ ~(Trim(bibleReference) = <<>>)
    /\ InFlightRoom
    /\ handleFetchVerseText
    /\ UNCHANGED <<calls, eval>>

\* the "Buscar Texto" button
ClickFetchVerseText ==
    /\ ~(Trim(bibleReference) = <<>> \/ isAnyLoading)
    /\ InFlightRoom
    /\ handleFetchVerseText
    /\ UNCHANGED <<calls, eval>>

\* the "Gerar Audio" button
ClickGenerateAudio ==
    /\ ~(Trim(textForNarration) = <<>> \/ isAnyLoading)
    /\ InFlightRoom /\ UrlRoom
    /\ handleGenerateAudioClick
    /\ UNCHANGED <<calls, eval>>

TypeReference == (\E r \in RefInputs : SetBibleReference(r)) /\ UNCHANGED <<calls, eval>>

TypePrompt == (\E t \in PromptInputs : SetPromptText(t)) /\ UNCHANGED <<calls, eval>>

TypeNarration == (\E t \in NarrationInputs : SetTextForNarration(t)) /\ UNCHANGED <<calls, eval>>

PromptArrives ==
    /\ \E i \in 1..Len(inflight) : \E resp \in SceneResponses : ResolvePrompt(i, resp)
    /\ UNCHANGED <<calls, eval>>

ImageArrives ==
    /\ \E i \in 1..Len(inflight) : \E resp \in ImageResponses : ResolveImage(i, resp)
    /\ UNCHANGED <<calls, eval>>

NextSceneArrives ==
    /\ \E i \in 1..Len(inflight) : \E resp \in SceneResponses : ResolveNextScene(i, resp)
    /\ UNCHANGED <<calls, eval>>

NextImageArrives ==
    /\ \E i \in 1..Len(inflight) : \E resp \in ImageResponses : ResolveNextImage(i, resp)
    /\ UNCHANGED <<calls, eval>>

VerseTextArrives ==
    /\ \E i \in 1..Len(inflight) : \E resp \in TextResponses : ResolveFetch(i, resp)
    /\ UNCHANGED <<calls, eval>>

SpeechArrives ==
    /\ \E i \in 1..Len(inflight) : \E resp \in SpeechResponses : ResolveAudio(i, resp)
    /\ UNCHANGED <<calls, eval>>

Next ==
    \/ TypeReference
    \/ TypePrompt
    \/ TypeNarration
    \/ ClickStartNew
    \/ ClickGeneratePrompt
    \/ ClickGenerateImage
    \/ ClickGenerateNextVerse
    \/ ClickFetchVerseText
    \/ ClickGenerateAudio
    \/ PromptArrives
    \/ ImageArrives
    \/ NextSceneArrives
    \/ NextImageArrives
    \/ VerseTextArrives
    \/ SpeechArrives
    \/ Unmount

Spec == Init /\ [][Next]_vars

\* the component driven through its controls when every service call is
\* answered: a pending call does not stay pending forever
\* a service call that is pending is answered
Answer ==
    \/ PromptArrives
    \/ ImageArrives
    \/ NextSceneArrives
    \/ NextImageArrives
    \/ VerseTextArrives
    \/ SpeechArrives

ServiceAnswers == WF_vars(Answer)

SpecAnswered == Init /\ [][Next]_vars /\ ServiceAnswers

\* ------------------------------------------------------------------------
\* The handlers invoked as operations, whatever the controls show
\* ------------------------------------------------------------------------
CallRoom == calls < MaxCalls /\ calls' = calls + 1 /\ UNCHANGED eval

CallStartNew == CallRoom /\ handleStartNew

CallGeneratePrompt == CallRoom /\ InFlightRoom /\ handleGeneratePrompt

CallGenerateImage == CallRoom /\ InFlightRoom /\ handleGenerateImage

CallGenerateNextVerse == CallRoom /\ InFlightRoom /\ VerseRoom /\ handleGenerateNextVerse

CallFetchVerseText == CallRoom /\ InFlightRoom /\ handleFetchVerseText

CallGenerateAudio == CallRoom /\ InFlightRoom /\ UrlRoom /\ handleGenerateAudioClick

NextDirect ==
    \/ TypeReference
    \/ TypePrompt
    \/ TypeNarration
    \/ CallStartNew
    \/ CallGeneratePrompt
    \/ CallGenerateImage
    \/ CallGenerateNextVerse
    \/ CallFetchVerseText
    \/ CallGenerateAudio
    \/ PromptArrives
    \/ ImageArrives
    \/ NextSceneArrives
    \/ NextImageArrives
    \/ VerseTextArrives
    \/ SpeechArrives
    \/ Unmount

SpecDirect == Init /\ [][NextDirect]_vars

\* ------------------------------------------------------------------------
\* parseBibleRef and formatBibleRef evaluated on their own
\* ------------------------------------------------------------------------
RefAlphabet == {"G", " ", "0", "1", ":"}

ShortRefs == UNION { [1..n -> RefAlphabet] : n \in 0..MaxRefLen }

PowerOfTen(k) == <<"1">> \o [i \in 1..k |-> "0"]

\* references whose chapter or verse is a long run of digits
LongRefs ==
    { <<"G", " ">> \o PowerOfTen(k) \o <<":", "1">> : k \in {14, 20, 21} }
    \cup { <<"G", " ", "1", ":">> \o PowerOfTen(k) : k \in {14, 20, 21} }

\* every digit run of the reference is a number the model covers
Covered(s) ==
    \A i, j \in 1..Len(s) :
        (i <= j /\ AllDigits(SubSeq(s, i, j))) => ExactNumber(StripZeros(SubSeq(s, i, j)))

RefStrings == { s \in ShortRefs \cup LongRefs : Covered(s) }

\* parse, format what was parsed, parse what was formatted
RoundTrip(s) ==
    LET parsed == parseBibleRef(s)
        formatted == IF IsSome(parsed) THEN Some(formatBibleRef(parsed[1])) ELSE None
        reparsed == IF IsSome(formatted) THEN parseBibleRef(formatted[1]) ELSE None
    IN  [parsed |-> parsed, formatted |-> formatted, reparsed |-> reparsed]

InitParse ==
    /\ InitComponent
    /\ eval \in { [fn |-> "parseBibleRef", arg |-> Some(s), out |-> None] : s \in RefStrings }

ParseAndFormat ==
    /\ eval.fn = "parseBibleRef" /\ eval.out = None
    /\ eval' = [eval EXCEPT !.out = Some(RoundTrip(eval.arg[1]))]
    /\ UNCHANGED <<seqVars, flagVars, errVars, audioVars, urlVars, mounted, inflight, calls, ev>>

NextParse == ParseAndFormat

SpecParse == InitParse /\ [][NextParse]_vars

\* ------------------------------------------------------------------------
\* createWavBlob evaluated on its own.  A buffer of n bytes is a sequence of
\* length n, its byte at offset k the element k + 1.
\* ------------------------------------------------------------------------
\* charCodeAt of the characters written by writeString
CharCode(c) ==
    CASE c = "R" -> 82  [] c = "I" -> 73  [] c = "F" -> 70  [] c = "W" -> 87
      [] c = "A" -> 65  [] c = "V" -> 86  [] c = "E" -> 69  [] c = "f" -> 102
      [] c = "m" -> 109 [] c = "t" -> 116 [] c = " " -> 32  [] c = "d" -> 100
      [] c = "a" -> 97

\* new ArrayBuffer(n): n zero bytes
ArrayBuffer(n) == [k \in 1..n |-> 0]

\* the bytes written at an offset replace those of the buffer there
WriteBytes(view, offset, bytes) ==
    [k \in 1..Len(view) |->
        IF k > offset /\ k <= offset + Len(bytes) THEN bytes[k - offset] ELSE view[k]]

setUint8(view, offset, value) == WriteBytes(view, offset, <<value % 256>>)

writeString(view, offset, string) ==
    WriteBytes(view, offset, [i \in 1..Len(string) |-> CharCode(string[i]) % 256])

setUint16(view, offset, value) ==
    WriteBytes(view, offset, <<value % 256, (value \div 256) % 256>>)

\* a variant that writes the most significant byte first
setUint32_BigEndian(view, offset, value) ==
    WriteBytes(view, offset, <<(value \div 16777216) % 256, (value \div 65536) % 256,
                               (value \div 256) % 256, value % 256>>)

\* DataView.setUint32(offset, value, true): little-endian, four bytes; the
\* values written here stay below 2^31, far from the wrap at 2^32
setUint32(view, offset, value) ==
    WriteBytes(view, offset, <<value % 256, (value \div 256) % 256,
                               (value \div 65536) % 256, (value \div 16777216) % 256>>)

\* the loop that copies pcmData into the view from offset 44 on
RECURSIVE WritePcm(_, _, _)
WritePcm(view, pcmData, i) ==
    IF i >= Len(pcmData) THEN view
    ELSE WritePcm(setUint8(view, 44 + i, pcmData[i + 1]), pcmData, i + 1)

\* createWavBlob, from the string atob returned onwards: the bytes of the blob
createWavBlob(binaryString) ==
    LET pcmData == [i \in 1..Len(binaryString) |-> binaryString[i] % 256]
        sampleRate == 24000
        numChannels == 1
        bitsPerSample == 16
        dataSize == Len(pcmData)
        v0 == ArrayBuffer(44 + dataSize)
        v1 == writeString(v0, 0, <<"R", "I", "F", "F">>)
        v2 == setUint32(v1, 4, 36 + dataSize)
        v3 == writeString(v2, 8, <<"W", "A", "V", "E">>)
        v4 == writeString(v3, 12, <<"f", "m", "t", " ">>)
        v5 == setUint32(v4, 16, 16)
        v6 == setUint16(v5, 20, 1)
        v7 == setUint16(v6, 22, numChannels)
        v8 == setUint32(v7, 24, sampleRate)
        v9 == setUint32(v8, 28, sampleRate * numChannels * (bitsPerSample \div 8))
        v10 == setUint16(v9, 32, numChannels * (bitsPerSample \div 8))
        v11 == setUint16(v10, 34, bitsPerSample)
        v12 == writeString(v11, 36, <<"d", "a", "t", "a">>)
        v13 == setUint32(v12, 40, dataSize)
    IN  WritePcm(v13, pcmData, 0)

\* char codes of the string atob returns
ByteValues == {0, 1, 128, 255}

PcmInputs == UNION { [1..n -> ByteValues] : n \in 0..MaxPcmLen }

InitWav ==
    /\ InitComponent
    /\ eval \in { [fn |-> "createWavBlob", arg |-> Some(b), out |-> None] : b \in PcmInputs }

EncodeWav ==
    /\ eval.fn = "createWavBlob" /\ eval.out = None
    /\ eval' = [eval EXCEPT !.out = Some(createWavBlob(eval.arg[1]))]
    /\ UNCHANGED <<seqVars, flagVars, errVars, audioVars, urlVars, mounted, inflight, calls, ev>>

NextWav == EncodeWav

SpecWav == InitWav /\ [][NextWav]_vars

\* ------------------------------------------------------------------------
\* generateImagePrompt evaluated on its own, on every shape of payload
\* ------------------------------------------------------------------------
\* lists one entry longer than those the component is run with
PayloadCharLists == UNION { [1..n -> CharEntries] : n \in 0..(MaxChars + 1) }

\* the payloads extracted from the text of the model: text that is not JSON,
\* the JSON null, an object with any of the three fields present or not,
\* and an object whose characterDescriptions cannot be reduced
ScenePayloads ==
    { [tag |-> "notjson"], [tag |-> "null"] }
    \cup [tag : {"json"},
          error : {None, Some("VERSE_NOT_FOUND"), Some("OTHER")},
          scenePrompt : {None, Some(<<>>)} \cup { Some(p) : p \in ScenePrompts },
          characterDescriptions : {None} \cup { Some(l) : l \in PayloadCharLists }]
    \cup [tag : {"badlist"},
          error : {None, Some("VERSE_NOT_FOUND"), Some("OTHER")},
          scenePrompt : {None, Some(<<>>)} \cup { Some(p) : p \in ScenePrompts }]

InitAdapter ==
    /\ InitComponent
    /\ eval \in { [fn |-> "generateImagePrompt", arg |-> Some(p), out |-> None] :
                    p \in ScenePayloads }

ProcessPayload ==
    /\ eval.fn = "generateImagePrompt" /\ eval.out = None
    /\ eval' = [eval EXCEPT !.out = Some(generateImagePrompt(eval.arg[1]))]
    /\ UNCHANGED <<seqVars, flagVars, errVars, audioVars, urlVars, mounted, inflight, calls, ev>>

NextAdapter == ProcessPayload

SpecAdapter == InitAdapter /\ [][NextAdapter]_vars

\* ------------------------------------------------------------------------
\* Properties
\* ------------------------------------------------------------------------
\* a handler has just returned, in the mounted component, after the
\* service call it awaited was answered
Returned(op) == mounted /\ ev.kind = "resolve" /\ ev.op = op

\* the error the handler caught is the adapter's VERSE_NOT_FOUND
CaughtVerseNotFound ==
    IsSome(ev.res) /\ ~ev.res[1].ok /\ ev.res[1].err = Err("Error", VERSE_NOT_FOUND)

FailedNextVerse == Returned("next") /\ ev.outcome = "error"

\* C1: after a handleGenerateNextVerse call that fails, at the scene
\* description (verse not found or any other error) or at the image,
\* bibleReference is what it was immediately before the call.
C1_ReferenceRestored == FailedNextVerse => bibleReference = ev.pre.ref

\* C1 witness: the image call of an advance from a parsed reference failed
\* after its scene description had succeeded, and the reference is back.
C1_Witness ==
    /\ FailedNextVerse /\ ev.stage = "image"
    /\ ev.pre.ref = <<"G", " ", "1", ":", "1">>
    /\ bibleReference = ev.pre.ref

\* C2: when the scene description of an advance ends in VERSE_NOT_FOUND, the
\* sequence is inactive, bibleReference is the reference held before the
\* call, the message shown is the end-of-chapter message, and the step
\* issues no image call.
C2_BoundaryEndsSequence ==
    (FailedNextVerse /\ ev.stage = "scene" /\ CaughtVerseNotFound)
        => /\ ~isSequenceActive
           /\ bibleReference = ev.pre.ref
           /\ imageError = Some(MsgChapterEnd)
           /\ ev.call = NoCall
           /\ \A i \in 1..Len(inflight) : inflight[i].op # "next"

\* C2 witness: an active sequence at "G 1:1" was told that "G 1:2" does not
\* exist.
C2_Witness ==
    /\ FailedNextVerse /\ ev.stage = "scene" /\ CaughtVerseNotFound
    /\ ev.pre.active /\ ev.pre.ref = <<"G", " ", "1", ":", "1">>
    /\ ~isSequenceActive

\* C3 (as claimed): after an advance that fails with an error other than
\* VERSE_NOT_FOUND, at either call, the character set and the prompt text
\* are what they were before the call.
C3_NoPartialMerge ==
    (FailedNextVerse /\ ~CaughtVerseNotFound)
        => /\ characterDescriptions = ev.pre.chars
           /\ promptText = ev.pre.prompt

\* C4 (as claimed): no object URL is revoked more than once.
C4_NoDoubleRelease == \A u \in DOMAIN revoked : revoked[u] <= 1

\* C5 (as claimed): no object URL leaks; once the component is torn down
\* and no call is outstanding, every object URL created has been revoked.
C5_NoLeak ==
    (~mounted /\ inflight = <<>>) => \A u \in DOMAIN revoked : revoked[u] >= 1

\* C6 (as claimed): a handler invoked while one of the four loading flags is
\* set returns at once, issuing no call and changing no state.
C6_RejectedWhileBusy ==
    (ev.kind = "invoke" /\ ev.busy) => ev.outcome = "rejected"

\* C7 (as claimed): while a sequence stays active, a name in the character
\* set keeps its description and is never removed.
C7_DescriptionsFixed ==
    [][(isSequenceActive /\ isSequenceActive'
          /\ IsSome(characterDescriptions) /\ IsSome(characterDescriptions'))
        => \A nm \in DOMAIN characterDescriptions[1] :
              /\ nm \in DOMAIN characterDescriptions'[1]
              /\ characterDescriptions'[1][nm] = characterDescriptions[1][nm]]_vars

\* a scene description has just been stored by handleGeneratePrompt or by
\* handleGenerateNextVerse
SceneStored ==
    \/ Returned("prompt") /\ ev.outcome = "ok"
    \/ Returned("next") /\ ev.outcome = "continue"

\* C8: after a successful scene description the stored character set is
\* exactly the set the call returned; a name that was present before the
\* call and is absent from the result is gone.
C8_FullReplace ==
    SceneStored
        => /\ characterDescriptions = Some(ev.res[1].characterDescriptions)
           /\ \A nm \in Names :
                 nm \notin DOMAIN ev.res[1].characterDescriptions
                     => nm \notin DOMAIN characterDescriptions[1]

\* C8 witness: an advance stored a result from which a character of the
\* previous scene is absent.
C8_Witness ==
    /\ SceneStored /\ ev.op = "next"
    /\ IsSome(ev.pre.chars)
    /\ \E nm \in DOMAIN ev.pre.chars[1] : nm \notin DOMAIN characterDescriptions[1]
    /\ characterDescriptions = Some(ev.res[1].characterDescriptions)

\* C9 (as claimed): every scene description requested by
\* handleGenerateNextVerse is requested in continuation mode.
C9_AlwaysContinuation ==
    (ev.kind = "invoke" /\ ev.op = "next" /\ ev.outcome = "started")
        => ev.call = [svc |-> "scene", mode |-> "continuation"]

\* C10 (as claimed): a VERSE_NOT_FOUND outcome of the scene description is
\* shown as the end-of-chapter message by both handlers that request one,
\* never as the raw message of the error or a generic failure message.
C10_BoundaryNeverGeneric ==
    (mounted /\ ev.kind = "resolve" /\ ev.stage = "scene" /\ CaughtVerseNotFound)
        => /\ ev.op = "next" => imageError = Some(MsgChapterEnd)
           /\ ev.op = "prompt" =>
                 promptError \notin { Some(VERSE_NOT_FOUND), Some(MsgPromptFallback),
                                      Some(MsgComm), Some(MsgMalformed) }

\* C11 (as claimed): after a handleGenerateImage call that fails, the active
\* flag, the reference, the character set and the stored image are what
\* they were before the call.
C11_ImageFailureKeepsState ==
    (Returned("image") /\ ev.outcome = "error")
        => /\ isSequenceActive = ev.pre.active
           /\ bibleReference = ev.pre.ref
           /\ characterDescriptions = ev.pre.chars
           /\ generatedImage = ev.pre.image

\* C13 (as claimed): once an advance has ended the sequence on
\* VERSE_NOT_FOUND, or the user has started a new scene, the character set
\* is empty.
C13_CastClearedAtEnd ==
    /\ (FailedNextVerse /\ CaughtVerseNotFound) => characterDescriptions = None
    /\ (mounted /\ ev.kind = "reset") => characterDescriptions = None

\* C18 (as claimed): the message of a transport failure thrown by the
\* service client is never the error shown for the prompt or for the image.
C18_NoRawTransportMessage ==
    \A e \in TransportErrors :
        /\ promptError # Some(e.message)
        /\ imageError # Some(e.message)

FailedPrompt == Returned("prompt") /\ ev.outcome = "error"

\* C12 (as claimed): after a handleGeneratePrompt call that fails, the
\* character set is what it was before the call.
C12_CastUnchangedOnFailure == FailedPrompt => characterDescriptions = ev.pre.chars

\* C12 (amended): after a handleGeneratePrompt call that fails, the
\* character set is null: the handler cleared it before the request and the
\* catch block does not touch it, whatever was stored before the call.
C12_CastResetOnFailure == FailedPrompt => characterDescriptions = None

\* C12 witness: a prompt request failed although a cast from an earlier
\* prompt was stored when it was made.
C12_Witness ==
    /\ FailedPrompt
    /\ ev.pre.chars = Some([nm \in {"Adao"} |-> "d1"])
    /\ characterDescriptions = None

NextImageCalls(q) == {i \in DOMAIN q : q[i].op = "next" /\ q[i].stage = "image"}

NextSceneResolved == ev'.kind = "resolve" /\ ev'.op = "next" /\ ev'.stage = "scene"

\* C14: in handleGenerateNextVerse an image request appears only in the step
\* in which the scene request of the same invocation resolves successfully,
\* and it carries the scenePrompt of that result; when the scene request
\* fails, the invocation ends with no image request.
C14_ImageAfterScene ==
    [][/\ Cardinality(NextImageCalls(inflight')) > Cardinality(NextImageCalls(inflight))
          => /\ NextSceneResolved
             /\ ev'.res[1].ok
             /\ ev'.call.svc = "image"
             /\ \E i \in DOMAIN inflight :
                  /\ inflight[i].op = "next" /\ inflight[i].stage = "scene"
                  /\ inflight' = [inflight EXCEPT ![i].stage = "image",
                                                  ![i].text = ev'.res[1].scenePrompt]
       /\ (NextSceneResolved /\ ~ev'.res[1].ok)
          => /\ ev'.call = NoCall
             /\ Len(inflight') = Len(inflight) - 1
             /\ Cardinality(NextImageCalls(inflight')) = Cardinality(NextImageCalls(inflight))
      ]_vars

\* C14 witness: the scene request of an advance has succeeded and its image
\* request is pending with the returned prompt, which differs from the prompt
\* that was on screen when the advance was invoked.
C14_Witness ==
    /\ ev.kind = "resolve" /\ ev.op = "next" /\ ev.outcome = "continue"
    /\ ev.pre.prompt = <<"h">>
    /\ \E i \in DOMAIN inflight :
         /\ inflight[i].op = "next" /\ inflight[i].stage = "image"
         /\ inflight[i].text = <<"s">>

SucceededNextVerse == Returned("next") /\ ev.outcome = "ok"

C16_RetryableFailure ==
    (FailedNextVerse /\ ~CaughtVerseNotFound)
        => /\ isSequenceActive = ev.pre.active
           /\ generatedImage = ev.pre.image
           /\ getNextVerseRef(bibleReference) = getNextVerseRef(ev.pre.ref)
           /\ NextVerseGuard(getNextVerseRef(bibleReference), characterDescriptions)

\* C16 witness: the image request of an advance produced no image, and the
\* sequence is still active with the image of the previous verse.
C16_Witness ==
    /\ FailedNextVerse
    /\ ev.stage = "image"
    /\ ev.res[1].err = Err("Error", MsgNoImage)
    /\ isSequenceActive
    /\ generatedImage = Some("img1")

\* the texts of the speech requests that are pending
SpeechPending(q) == {q[i].text : i \in {j \in DOMAIN q : q[j].op = "audio"}}

Unreleased(rv) == {u \in DOMAIN rv : rv[u] = 0}

\* C17: a speech request carries the text that was in the text box when
\* handleGenerateAudioClick was invoked, and keeps it while it is pending;
\* when it succeeds the new URL is held and narratedText is that text; as
\* long as the same URL is held narratedText does not change; and at most
\* one object URL is unreleased at any time.
C17_NarratedTextIsSubmitted ==
    [][/\ (ev'.kind = "invoke" /\ ev'.op = "audio" /\ ev'.outcome = "started")
          => /\ SpeechPending(inflight) = {}
             /\ SpeechPending(inflight') = {textForNarration}
             /\ generatedAudioUrl' = None /\ narratedText' = None
       /\ (SpeechPending(inflight) # {} /\ ~(ev'.kind = "resolve" /\ ev'.op = "audio"))
          => SpeechPending(inflight') = SpeechPending(inflight)
       /\ (mounted /\ ev'.kind = "resolve" /\ ev'.op = "audio" /\ ev'.outcome = "ok")
          => /\ generatedAudioUrl' = Some(nextUrl)
             /\ SpeechPending(inflight) = {narratedText'[1]}
       /\ (IsSome(generatedAudioUrl') /\ generatedAudioUrl' = generatedAudioUrl)
          => narratedText' = narratedText
       /\ IsSome(generatedAudioUrl') => IsSome(narratedText')
       /\ Cardinality(Unreleased(revoked')) <= 1
      ]_vars

\* C17 witness: the URL of a second speech request, made for the text "b",
\* is held and the URL of the first request is released; narratedText is
\* "b" although the text box now reads "a".
C17_Witness ==
    /\ generatedAudioUrl = Some(2)
    /\ revoked[1] > 0 /\ revoked[2] = 0
    /\ narratedText = Some(<<"b">>)
    /\ textForNarration = <<"a">>

\* empty, or white space only
Blank(s) == \A i \in 1..Len(s) : IsSpace(s[i])

\* the input of each handler that has a blank-input guard
BlankInput(op) ==
    CASE op \in {"prompt", "fetch"} -> Blank(bibleReference)
      [] op = "image" -> Blank(promptText)
      [] op = "audio" -> Blank(textForNarration)
      [] OTHER -> FALSE

\* C19: handleGeneratePrompt or handleFetchVerseText invoked with a blank
\* reference, handleGenerateImage with a blank prompt, handleGenerateAudioClick
\* with a blank text: the handler returns at once, no request is added to
\* those pending, no error message is set and no state of the component
\* changes.
C19_BlankInputIsNoOp ==
    [][(ev'.kind = "invoke" /\ BlankInput(ev'.op))
          => /\ ev'.outcome = "rejected"
             /\ ev'.call = NoCall
             /\ inflight' = inflight
             /\ UNCHANGED <<seqVars, flagVars, errVars, audioVars, urlVars, mounted>>
      ]_vars

\* C19 witness: handleGeneratePrompt has just returned early on a reference
\* of one space, with nothing loading.
C19_Witness ==
    /\ ev.kind = "invoke" /\ ev.op = "prompt" /\ ev.outcome = "rejected"
    /\ ~ev.busy
    /\ bibleReference = <<" ">>
    /\ inflight = <<>>

\* C20: a successful handleGeneratePrompt leaves the sequence inactive, the
\* reference as it was given, the characters returned stored and no image;
\* edits, verse text and narration change neither the characters nor the
\* active flag; handleGenerateImage leaves reference, characters and active
\* flag alone while its request is pending, and on success stores the image
\* and makes the sequence active with reference and characters unchanged.
C20_FirstSceneStartsSequence ==
    [][/\ (mounted /\ ev'.kind = "resolve" /\ ev'.op = "prompt" /\ ev'.outcome = "ok")
          => /\ ~isSequenceActive'
             /\ bibleReference' = ev'.pre.ref
             /\ characterDescriptions' = Some(ev'.res[1].characterDescriptions)
             /\ promptText' = ev'.res[1].scenePrompt
             /\ generatedImage' = None
       /\ (ev'.kind = "edit" \/ ev'.op \in {"fetch", "audio"})
          => UNCHANGED <<characterDescriptions, isSequenceActive>>
       /\ (ev'.kind = "invoke" /\ ev'.op = "image")
          => UNCHANGED <<bibleReference, characterDescriptions, isSequenceActive>>
       /\ (mounted /\ ev'.kind = "resolve" /\ ev'.op = "image" /\ ev'.outcome = "ok")
          => /\ isSequenceActive'
             /\ generatedImage' = Some(ev'.res[1].imageBytes)
             /\ bibleReference' = ev'.pre.ref
             /\ characterDescriptions' = ev'.pre.chars
             /\ UNCHANGED <<bibleReference, characterDescriptions>>
      ]_vars

\* C20 witness: the image of a first scene for "G 1:1" has arrived; the
\* sequence was inactive when the image was requested and is active now,
\* with the characters of the scene description.
C20_Witness ==
    /\ Returned("image") /\ ev.outcome = "ok"
    /\ ~ev.pre.active /\ ev.pre.image = None
    /\ isSequenceActive
    /\ bibleReference = <<"G", " ", "1", ":", "1">>
    /\ characterDescriptions = Some([nm \in {"Adao"} |-> "d2"])
    /\ promptText = <<"s">>
    /\ generatedImage = Some("img1")

\* C21: handleFetchVerseText leaves the sequence state alone: when it has
\* been invoked, and when it has returned with a text, with the error of an
\* empty answer or with a service error, the active flag, the reference, the
\* characters, the prompt and the image are what they were when it was
\* invoked.
C21_FetchKeepsSequenceState ==
    (mounted /\ ev.op = "fetch" /\ ev.kind \in {"invoke", "resolve"}) => Snapshot = ev.pre

\* C21 witness: a verse text has been fetched in the middle of an active
\* sequence.
C21_Witness ==
    /\ Returned("fetch") /\ ev.outcome = "ok"
    /\ isSequenceActive
    /\ generatedImage = Some("img1")
    /\ IsSome(characterDescriptions)
    /\ promptText = <<"s">>
    /\ textForNarration = <<"a">>

\* the reference reads "<book> <chapter>:<verse>": the book given, one
\* space, a run of digits, a colon, a run of digits, and no white space at
\* either end
NormalizedRef(t, book) ==
    /\ t # <<>> /\ ~IsSpace(t[1]) /\ ~IsSpace(t[Len(t)])
    /\ \E i, k \in 1..Len(t) :
         /\ i < k
         /\ SubSeq(t, 1, i - 1) = book
         /\ t[i] = " "
         /\ AllDigits(SubSeq(t, i + 1, k - 1))
         /\ t[k] = ":"
         /\ AllDigits(SubSeq(t, k + 1, Len(t)))

\* C22 (as claimed): for every string that parseBibleRef accepts,
\* formatBibleRef of the parsed reference reads "<book> <chapter>:<verse>"
\* with no white space at either end, and parsing it again gives the same
\* parsed reference.
C22_RoundTrip ==
    (eval.fn = "parseBibleRef" /\ IsSome(eval.out) /\ IsSome(eval.out[1].parsed))
        => /\ NormalizedRef(eval.out[1].formatted[1], eval.out[1].parsed[1].book)
           /\ eval.out[1].reparsed = eval.out[1].parsed

\* the unsigned 32-bit number stored little-endian at an offset of a buffer
Uint32At(bytes, offset) ==
    bytes[offset + 1] + 256 * bytes[offset + 2] + 65536 * bytes[offset + 3]
        + 16777216 * bytes[offset + 4]

\* C23: for a PCM input of n bytes, n = 0 included, createWavBlob returns
\* 44 + n bytes; the RIFF chunk size at offset 4 is 36 + n, the data size at
\* offset 40 is n, and the bytes from offset 44 on are the input bytes in
\* order.
C23_WavLayout ==
    (eval.fn = "createWavBlob" /\ IsSome(eval.out))
        => LET pcm == eval.arg[1]
               wav == eval.out[1]
               n == Len(pcm)
           IN  /\ Len(wav) = 44 + n
               /\ Uint32At(wav, 4) = 36 + n
               /\ Uint32At(wav, 40) = n
               /\ \A i \in 0..(n - 1) : wav[44 + i + 1] = pcm[i + 1]

\* C23 witness: a three-byte payload has been wrapped (the empty payload is
\* among the inputs as well)
C23_Witness ==
    /\ eval.fn = "createWavBlob"
    /\ eval.arg = Some(<<1, 255, 128>>)
    /\ IsSome(eval.out)
    /\ SubSeq(eval.out[1], 1, 8) = <<82, 73, 70, 70, 39, 0, 0, 0>>
    /\ SubSeq(eval.out[1], 41, 47) = <<3, 0, 0, 0, 1, 255, 128>>

LoadingFlagsSet ==
    Cardinality({f \in {"prompt", "image", "audio", "fetch"} :
                    \/ f = "prompt" /\ isPromptLoading
                    \/ f = "image" /\ isImageLoading
                    \/ f = "audio" /\ isAudioLoading
                    \/ f = "fetch" /\ isFetchingVerse})

\* C24: when the handlers are started through the controls only, at most
\* one of isPromptLoading, isImageLoading, isAudioLoading, isFetchingVerse is
\* set and at most one service call is pending, in every reachable state.
C24_OneOperationAtATime == LoadingFlagsSet <= 1 /\ Len(inflight) <= 1

\* C24 witness: the image request of an advance is pending, a text to narrate
\* is in the box and a reference is there to fetch, and only isImageLoading
\* is set.
C24_Witness ==
    /\ Len(inflight) = 1
    /\ inflight[1].op = "next" /\ inflight[1].stage = "image"
    /\ isImageLoading /\ LoadingFlagsSet = 1
    /\ textForNarration = <<"a">>
    /\ Trim(bibleReference) # <<>>

\* C25: handleGenerateNextVerse invoked when the reference does not parse
\* as book chapter:verse, or when characterDescriptions is null, returns at
\* once: no request is added to those pending, no loading flag and no error
\* is set, and reference, active flag, characters and image are unchanged.
C25_AdvanceNoOp ==
    [][(/\ ev'.kind = "invoke" /\ ev'.op = "next"
        /\ (parseBibleRef(bibleReference) = None \/ characterDescriptions = None))
          => /\ ev'.outcome = "rejected"
             /\ ev'.call = NoCall
             /\ inflight' = inflight
             /\ UNCHANGED <<seqVars, flagVars, errVars, audioVars, urlVars, mounted>>
      ]_vars

\* C25 witness: the image of a hand-written prompt started a sequence with
\* no characters stored, and the advance from "G 1:1" has just returned
\* early.
C25_Witness ==
    /\ ev.kind = "invoke" /\ ev.op = "next" /\ ev.outcome = "rejected"
    /\ isSequenceActive
    /\ generatedImage = Some("img1")
    /\ characterDescriptions = None
    /\ promptText = <<"h">>
    /\ bibleReference = <<"G", " ", "1", ":", "1">>

\* the payload is an object with the error field "VERSE_NOT_FOUND"
HasVerseNotFound(p) == p.tag \in {"json", "badlist"} /\ p.error = Some("VERSE_NOT_FOUND")

\* C26: generateImagePrompt returns a result only for a payload with a
\* non-empty scenePrompt, a characterDescriptions and no VERSE_NOT_FOUND
\* error field; a payload with the error field VERSE_NOT_FOUND throws the
\* VERSE_NOT_FOUND error whatever its other fields are; every other payload
\* throws the malformed-response error.
C26_AdapterOutcomes ==
    (eval.fn = "generateImagePrompt" /\ IsSome(eval.out))
        => LET p == eval.arg[1]
               r == eval.out[1]
           IN  /\ r.ok => /\ p.tag = "json"
                          /\ IsSome(p.scenePrompt) /\ p.scenePrompt[1] # <<>>
                          /\ IsSome(p.characterDescriptions)
                          /\ p.error # Some("VERSE_NOT_FOUND")
               /\ HasVerseNotFound(p) => r = Throws(Err("Error", VERSE_NOT_FOUND))
               /\ (~r.ok /\ ~HasVerseNotFound(p)) => r = Throws(Err("Error", MsgMalformed))

\* C26 witness: a payload with the error field VERSE_NOT_FOUND, a scene
\* prompt and a list of characters has thrown VERSE_NOT_FOUND.
C26_Witness ==
    /\ eval.fn = "generateImagePrompt" /\ IsSome(eval.out)
    /\ eval.arg[1].tag = "json"
    /\ eval.arg[1].error = Some("VERSE_NOT_FOUND")
    /\ eval.arg[1].scenePrompt = Some(<<"s">>)
    /\ IsSome(eval.arg[1].characterDescriptions)
    /\ eval.out[1] = Throws(Err("Error", VERSE_NOT_FOUND))

\* C27: in every reachable state an active sequence has an image stored,
\* and the active flag goes from false to true only in the step in which an
\* image request succeeds, which stores that image.
C27_ActiveHasImage ==
    /\ [](isSequenceActive => IsSome(generatedImage))
    /\ [][(~isSequenceActive /\ isSequenceActive')
             => /\ ev'.kind = "resolve" /\ ev'.outcome = "ok"
                /\ ev'.op \in {"image", "next"} /\ ev'.stage = "image"
                /\ generatedImage' = Some(ev'.res[1].imageBytes)
         ]_vars

\* C27 witness: an image request made while the sequence was inactive has
\* just succeeded, and the sequence is active with that image.
C27_Witness ==
    /\ Returned("image") /\ ev.outcome = "ok"
    /\ ~ev.pre.active
    /\ isSequenceActive
    /\ generatedImage = Some(ev.res[1].imageBytes)

\* C28: when every service call is answered, a state in which a loading
\* flag is set is followed by one in which none is: whichever way the call
\* ends, the flag the handler set is cleared and the controls are enabled
\* again.
C28_LoadingEnds == isAnyLoading ~> ~isAnyLoading

\* C28 witness: an advance has ended on VERSE_NOT_FOUND in the mounted
\* component, and nothing is loading.
C28_Witness ==
    /\ FailedNextVerse /\ CaughtVerseNotFound
    /\ ~isAnyLoading
    /\ inflight = <<>>

====
